---- MODULE Spec2Model ----
(***************************************************************************)
(* A model of the PromptLibrary package: the PromptManager registry, the    *)
(* Schema / SchemaProperty serialisation, the LLMClient dispatch,           *)
(* generate_schema's extraction of JSON from a response, and Prompt.format. *)
(*                                                                          *)
(* Python values are encoded as follows.                                    *)
(*   - Optional[T]: None is the empty sequence <<>>, a value v is <<v>>.    *)
(*   - str, where the characters matter: a sequence of one-character        *)
(*     strings.                                                             *)
(*   - dict: a sequence of [key, value] entries in insertion order (the     *)
(*     order a Python dict iterates in); dict equality ignores that order.  *)
(* Each subsystem has its own specification over the shared variables; the  *)
(* variables of the other subsystems stay at their initial values.          *)
(***************************************************************************)
EXTENDS Integers, Sequences, FiniteSets, TLC

VARIABLES
    prompts,    \* PromptManager.prompts: the dict name -> Prompt
    added,      \* history: every Prompt passed to add_prompt, in call order
    call,       \* the last PromptManager method called, with its argument
    ret,        \* what that call returned
    prop,       \* a SchemaProperty object (None before it is constructed)
    pdict,      \* what SchemaProperty.to_dict returned for prop
    schema,     \* a Schema object (None before one is constructed or parsed)
    sdict,      \* a schema dict: a to_dict result or a caller's input
    strace,     \* history: where schema and sdict came from
    clients,    \* the LLMClient objects constructed so far
    calls,      \* the chat-completion calls made on the backends, in order
    lastOp,     \* the last LLMClient operation: its inputs and its outcome
    gen,        \* the last generate_schema call: the backend's answer, the
                \* text it extracted, and what it raised or returned
    fmt,        \* the last Prompt.format call: the prompt, the arguments,
                \* and what it raised or returned
    inflight    \* the generate calls that threads have issued and whose
                \* backend has not answered yet

registryVars == <<prompts, added, call, ret>>
schemaVars == <<prop, pdict, schema, sdict, strace>>
llmVars == <<clients, calls, lastOp>>
genVars == <<gen>>
fmtVars == <<fmt>>
threadVars == <<inflight>>
vars == <<registryVars, schemaVars, llmVars, genVars, fmtVars, threadVars>>

\* the variables of the other subsystems, which an operation leaves alone
exceptRegistry == <<schemaVars, llmVars, genVars, fmtVars, threadVars>>
exceptSchema == <<registryVars, llmVars, genVars, fmtVars, threadVars>>
exceptLLM == <<registryVars, schemaVars, genVars, fmtVars, threadVars>>
exceptGen == <<registryVars, schemaVars, llmVars, fmtVars, threadVars>>
exceptFmt == <<registryVars, schemaVars, llmVars, genVars, threadVars>>
exceptLLMThreads == <<registryVars, schemaVars, genVars, fmtVars>>

None == <<>>
Some(v) == <<v>>

Range(s) == {s[i] : i \in 1..Len(s)}

----------------------------------------------------------------------------
(* Python dict primitives *)

DictHas(d, k) == \E i \in 1..Len(d) : d[i].key = k

DictIndex(d, k) == CHOOSE i \in 1..Len(d) : d[i].key = k

\* d.setdefault(k, v): an existing entry is kept
DictSetDefault(d, k, v) ==
    IF DictHas(d, k) THEN d
    ELSE Append(d, [key |-> k, value |-> v])

\* d[k] = v : an existing key keeps its position and gets the new value
DictSetItem(d, k, v) ==
    IF DictHas(d, k)
    THEN [d EXCEPT ![DictIndex(d, k)] = [key |-> k, value |-> v]]
    ELSE Append(d, [key |-> k, value |-> v])

\* d.get(k): None when the key is absent
DictGet(d, k) ==
    IF DictHas(d, k) THEN Some(d[DictIndex(d, k)].value) ELSE None

\* list(d.values())
DictValues(d) == [i \in 1..Len(d) |-> d[i].value]

\* list(d.keys())
DictKeys(d) == [i \in 1..Len(d) |-> d[i].key]

----------------------------------------------------------------------------
(* models.py: Prompt and PromptCategory *)

PromptCategory ==
    {"coding", "writing", "analysis", "chat", "system", "general",
     "philosophical"}

MaxAdds == 3

Names == {"n1", "n2"}

\* the categories the registered prompts are drawn from, and the queried ones
UsedCategories == {"coding", "writing"}
QueryCategories == {"coding", "writing", "chat"}

\* tags are strings whose characters matter (substring against equality)
TagA == <<"a">>
TagB == <<"b">>
TagAB == <<"a", "b">>
TagLists == {<<>>, <<TagA>>, <<TagAB>>, <<TagB, TagAB>>}
QueryTags == {TagA, TagB, TagAB, <<"b", "a">>}

Prompts ==
    [name : Names, category : UsedCategories, tags : TagLists]

----------------------------------------------------------------------------
(* prompt_manager.py: PromptManager *)

\* Python's  x in xs  for a list xs: some element equals x
InList(x, xs) == \E i \in 1..Len(xs) : xs[i] = x

\* s occurs in t as a contiguous substring
IsSubstring(s, t) ==
    \E i \in 0..(Len(t) - Len(s)) : SubSeq(t, i + 1, i + Len(s)) = s

by_category_negated(d, category) ==
    SelectSeq(DictValues(d), LAMBDA p : p.category # category)

\* [p for p in self.prompts.values() if p.category == category]
by_category(d, category) ==
    SelectSeq(DictValues(d), LAMBDA p : p.category = category)

by_tag_substring(d, tag) ==
    SelectSeq(DictValues(d),
              LAMBDA p : \E i \in 1..Len(p.tags) : IsSubstring(tag, p.tags[i]))

\* [p for p in self.prompts.values() if tag in p.tags]
by_tag(d, tag) ==
    SelectSeq(DictValues(d), LAMBDA p : InList(tag, p.tags))

\* the value a PromptManager method returned: its Python type and its content
PyNone == [type |-> "NoneType", value |-> <<>>]
PyPrompt(p) == [type |-> "Prompt", value |-> <<p>>]
PyList(s) == [type |-> "list", value |-> s]

NoCall == [op |-> "none", name |-> "", category |-> "", tag |-> <<>>]

PromptManager_init ==
    /\ prompts = <<>>
    /\ added = <<>>
    /\ call = NoCall
    /\ ret = PyNone

add_prompt(p) ==
    /\ Len(added) < MaxAdds
    /\ prompts' = DictSetItem(prompts, p.name, p)
    /\ added' = Append(added, p)
    /\ call' = [NoCall EXCEPT !.op = "add_prompt", !.name = p.name]
    /\ ret' = PyNone

get_prompt(name) ==
    /\ call' = [NoCall EXCEPT !.op = "get_prompt", !.name = name]
    /\ ret' = IF DictGet(prompts, name) = None
              THEN PyNone
              ELSE PyPrompt(DictGet(prompts, name)[1])
    /\ UNCHANGED <<prompts, added>>

get_prompts_by_category(category) ==
    /\ call' = [NoCall EXCEPT !.op = "get_prompts_by_category",
                              !.category = category]
    /\ ret' = PyList(by_category(prompts, category))
    /\ UNCHANGED <<prompts, added>>

get_prompts_by_tag(tag) ==
    /\ call' = [NoCall EXCEPT !.op = "get_prompts_by_tag", !.tag = tag]
    /\ ret' = PyList(by_tag(prompts, tag))
    /\ UNCHANGED <<prompts, added>>

AddPrompt ==
    /\ \E p \in Prompts : add_prompt(p)
    /\ UNCHANGED exceptRegistry

GetPrompt ==
    /\ \E n \in Names : get_prompt(n)
    /\ UNCHANGED exceptRegistry

GetPromptsByCategory ==
    /\ \E c \in QueryCategories : get_prompts_by_category(c)
    /\ UNCHANGED exceptRegistry

GetPromptsByTag ==
    /\ \E t \in QueryTags : get_prompts_by_tag(t)
    /\ UNCHANGED exceptRegistry

----------------------------------------------------------------------------
(* schema.py: SchemaProperty and Schema *)

\* a key of a dict: absent, or present with a value
Absent == <<>>
Present(v) == <<v>>

MaxProps == 2
MaxRequired == 2

PropNamePool == <<"p", "q", "r", "s">>
PropNames == {PropNamePool[i] : i \in 1..MaxProps}

\* the values of SchemaProperty.enum: None, the empty list, a list
EnumValues == {None, Some(<<>>), Some(<<"x", "y">>)}
\* SchemaProperty.items and .properties are None or a dict object, the empty
\* dict "{}" included; the dicts are passed through untouched, so the model
\* names each by its text

\* the SchemaProperty objects the model constructs: no optional field set,
\* an empty enum, an enum, items, and several fields set at once
SchemaProperties ==
    {[type |-> "string", description |-> "d", enum |-> e, items |-> None,
      properties |-> None] : e \in EnumValues}
    \cup
    {[type |-> "array", description |-> "", enum |-> None,
      items |-> Some("{type: string, description: item}"),
      properties |-> None],
     [type |-> "object", description |-> "d", enum |-> None,
      items |-> Some("{}"), properties |-> Some("{name: {type: string}}")]}

\* SchemaProperty.__init__
SchemaProperty_init(type_, description, enum, items, properties) ==
    [type |-> type_, description |-> description, enum |-> enum,
     items |-> items, properties |-> properties]

\* to_dict with  if self.enum:  in place of  if self.enum is not None:
SchemaProperty_to_dict_truthy(self) ==
    [type |-> Present(self.type),
     description |-> Present(self.description),
     enum |-> IF self.enum # None /\ self.enum[1] # <<>>
              THEN Present(self.enum[1]) ELSE Absent,
     items |-> IF self.items # None /\ self.items[1] # "{}"
               THEN Present(self.items[1]) ELSE Absent,
     properties |-> IF self.properties # None /\ self.properties[1] # "{}"
                    THEN Present(self.properties[1]) ELSE Absent]

\* SchemaProperty.to_dict: the result dict, as the presence and value of each
\* of its five possible keys
SchemaProperty_to_dict(self) ==
    [type |-> Present(self.type),
     description |-> Present(self.description),
     enum |-> IF self.enum # None THEN Present(self.enum[1]) ELSE Absent,
     items |-> IF self.items # None THEN Present(self.items[1]) ELSE Absent,
     properties |-> IF self.properties # None
                    THEN Present(self.properties[1]) ELSE Absent]

\* Schema.__init__:  self.required = required or list(properties.keys())
\* (None and the empty list are both falsy)
Schema_init(name, description, properties, required) ==
    [name |-> name, description |-> description, properties |-> properties,
     required |-> IF required # None /\ required[1] # <<>>
                  THEN required[1]
                  ELSE DictKeys(properties)]

\* Schema.to_dict
Schema_to_dict(self) ==
    [name |-> self.name,
     description |-> self.description,
     parameters |->
        [type |-> "object",
         required |-> Present(self.required),
         properties |->
            [i \in 1..Len(self.properties) |->
                [key |-> self.properties[i].key,
                 value |-> SchemaProperty_to_dict(self.properties[i].value)]]]]

\* prop_data.get(key): None when the key is absent
PropGet(v) == IF v = Absent THEN None ELSE Some(v[1])

\* the loop of from_dict over params["properties"].items(), from entry i on
RECURSIVE from_dict_properties(_, _, _)
from_dict_properties(items, i, properties) ==
    IF i > Len(items) THEN properties
    ELSE LET prop_name == items[i].key
             prop_data == items[i].value
             prop_type == prop_data.type[1]
             prop_desc == IF prop_data.description = Absent THEN ""
                          ELSE prop_data.description[1]
             prop_enum == PropGet(prop_data.enum)
             prop_items == PropGet(prop_data.items)
             prop_props == PropGet(prop_data.properties)
         IN  from_dict_properties(items, i + 1,
                 DictSetItem(properties, prop_name,
                     SchemaProperty_init(prop_type, prop_desc, prop_enum,
                                         prop_items, prop_props)))

\* from_dict that ignores the key  required  of its input
Schema_from_dict_all_required(data) ==
    LET properties == from_dict_properties(data.parameters.properties, 1, <<>>)
    IN  Schema_init(data.name, data.description, properties, None)

\* Schema.from_dict
Schema_from_dict(data) ==
    LET name == data.name
        description == data.description
        params == data.parameters
        properties == from_dict_properties(params.properties, 1, <<>>)
        required == IF params.required = Absent
                    THEN DictKeys(properties)
                    ELSE params.required[1]
    IN  Schema_init(name, description, properties, Some(required))

\* Python's == on two dicts: the same keys with equal values, in any order
PyDictEq(a, b) == Range(a) = Range(b)

\* Python's == on two results of Schema.to_dict
SchemaDictEq(a, b) ==
    /\ a.name = b.name
    /\ a.description = b.description
    /\ a.parameters.type = b.parameters.type
    /\ a.parameters.required = b.parameters.required
    /\ PyDictEq(a.parameters.properties, b.parameters.properties)

\* sequences of length at most n over the set S
RECURSIVE SeqsUpTo(_, _)
SeqsUpTo(S, n) ==
    IF n = 0 THEN {<<>>}
    ELSE LET shorter == SeqsUpTo(S, n - 1)
         IN  shorter \cup {Append(q, x) : q \in shorter, x \in S}

\* dicts with up to  MaxProps  distinct keys and values from V
PropDicts(V) ==
    LET keyLists == {ks \in SeqsUpTo(PropNames, MaxProps) :
                        \A i, j \in 1..Len(ks) : ks[i] = ks[j] => i = j}
    IN  UNION {{[i \in 1..Len(ks) |-> [key |-> ks[i], value |-> vs[i]]] :
                    vs \in [1..Len(ks) -> V]} : ks \in keyLists}

\* the  required  arguments: None, or a list of names (a name that is no
\* property included: the constructor does not check)
RequiredArgs ==
    {None} \cup {Some(r) : r \in SeqsUpTo(PropNames \cup {"z"}, MaxRequired)}

\* the property dicts of a caller's input to from_dict: those to_dict writes,
\* and one without a description
InputPropDicts ==
    {SchemaProperty_to_dict(sp) : sp \in SchemaProperties}
    \cup {[type |-> Present("number"), description |-> Absent,
           enum |-> Absent, items |-> Absent, properties |-> Absent]}

\* a caller's input to from_dict, with or without the key  required
InputDicts ==
    {[name |-> "f", description |-> "fd",
      parameters |-> [type |-> "object", required |-> r, properties |-> ps]] :
        r \in {Absent} \cup {Present(l) :
                    l \in SeqsUpTo(PropNames \cup {"z"}, MaxRequired)},
        ps \in PropDicts(InputPropDicts)}

\* schemaBy: how the Schema object was made; requiredArg: the  required
\* argument of the constructor call the behaviour started with; sdictBy: where
\* sdict came from; parsedFrom, parsedFromBy: the dict from_dict parsed and
\* where that came from; dumped: the Schema that to_dict serialised;
\* roundTripOf: for the to_dict result of a Schema that from_dict parsed from
\* an earlier to_dict result, that earlier result
NoTrace ==
    [schemaBy |-> "none", parsedFrom |-> None, parsedFromBy |-> "none",
     requiredArg |-> None, sdictBy |-> "none", dumped |-> None,
     roundTripOf |-> None]

Schema_initial ==
    /\ prop = None
    /\ pdict = None
    /\ schema = None
    /\ sdict = None
    /\ strace = NoTrace

\* SchemaProperty(...)
NewSchemaProperty(sp) ==
    /\ prop' = Some(SchemaProperty_init(sp.type, sp.description, sp.enum,
                                        sp.items, sp.properties))
    /\ UNCHANGED <<pdict, schema, sdict, strace>>

\* prop.to_dict()
PropertyToDict ==
    /\ prop # None
    /\ pdict' = Some(SchemaProperty_to_dict(prop[1]))
    /\ UNCHANGED <<prop, schema, sdict, strace>>
    /\ UNCHANGED exceptSchema

\* Schema(name, description, properties, required)
NewSchema(properties, required) ==
    /\ schema' = Some(Schema_init("f", "fd", properties, required))
    /\ strace' = [NoTrace EXCEPT !.schemaBy = "init",
                                 !.requiredArg = required]
    /\ UNCHANGED <<prop, pdict, sdict>>

\* schema.to_dict()
ToDict ==
    /\ schema # None
    /\ sdict' = Some(Schema_to_dict(schema[1]))
    /\ strace' = [strace EXCEPT
                    !.sdictBy = "to_dict",
                    !.dumped = schema,
                    !.roundTripOf = IF strace.parsedFromBy = "to_dict"
                                    THEN strace.parsedFrom ELSE None]
    /\ UNCHANGED <<prop, pdict, schema>>
    /\ UNCHANGED exceptSchema

\* a caller supplies a dict of the documented shape
InputDict(d) ==
    /\ sdict' = Some(d)
    /\ strace' = [NoTrace EXCEPT !.sdictBy = "input"]
    /\ UNCHANGED <<prop, pdict, schema>>

\* Schema.from_dict(sdict)
FromDict ==
    /\ sdict # None
    /\ schema' = Some(Schema_from_dict(sdict[1]))
    /\ strace' = [strace EXCEPT !.schemaBy = "from_dict",
                                !.parsedFrom = sdict,
                                !.parsedFromBy = strace.sdictBy]
    /\ UNCHANGED <<prop, pdict, sdict>>
    /\ UNCHANGED exceptSchema

\* a behaviour follows one object from its construction on
Fresh == prop = None /\ schema = None /\ sdict = None

ConstructProperty ==
    /\ Fresh
    /\ \E sp \in SchemaProperties : NewSchemaProperty(sp)
    /\ UNCHANGED exceptSchema

ConstructSchema ==
    /\ Fresh
    /\ \E ps \in PropDicts(SchemaProperties), r \in RequiredArgs :
            NewSchema(ps, r)
    /\ UNCHANGED exceptSchema

SupplyDict ==
    /\ Fresh
    /\ \E d \in InputDicts : InputDict(d)
    /\ UNCHANGED exceptSchema

----------------------------------------------------------------------------
(* llm.py: LLMProvider, LLMConfig and LLMClient *)

MaxClients == 2
MaxCalls == 2

LLMProvider == {"openai", "ollama"}

\* LLMConfig values; temperature is in tenths (7 is the default 0.7) and
\* max_tokens is Optional[int]; "other" is a provider outside the enumeration
Configs ==
    {[provider |-> "openai", model |-> "gpt-4o", temperature |-> 7,
      max_tokens |-> None],
     [provider |-> "openai", model |-> "gpt-4", temperature |-> 0,
      max_tokens |-> Some(100)],
     [provider |-> "ollama", model |-> "llama3.2", temperature |-> 7,
      max_tokens |-> None],
     [provider |-> "ollama", model |-> "mistral", temperature |-> 0,
      max_tokens |-> Some(100)],
     [provider |-> "other", model |-> "gpt-4o", temperature |-> 7,
      max_tokens |-> None]}

\* the messages argument of generate: a list of role/content dicts
Message(role, content) == [role |-> role, content |-> content]
MessageLists ==
    {<<>>,
     <<Message("system", "s"), Message("user", "u")>>,
     <<Message("user", "u"), Message("system", "s")>>}

\* an exception object: its type and its __cause__
Exception(type, cause) == [type |-> type, cause |-> cause]
UnsupportedProvider == Exception("ValueError: Unsupported provider", None)

\* what a backend does with one chat-completion call: it returns a response
\* (the OpenAI one lists its choices, possibly none; the ollama one holds one
\* message) or it raises
Response(choices) == [kind |-> "response", choices |-> choices, error |-> ""]
Fault(error) == [kind |-> "fault", choices |-> <<>>, error |-> error]
OpenAIOutcomes ==
    {Response(<<>>), Response(<<"t1">>), Response(<<"t2", "t1">>),
     Fault("APIConnectionError"), Fault("RateLimitError")}
OllamaOutcomes ==
    {Response(<<"t1">>), Response(<<"t2">>), Fault("ResponseError")}
Outcomes(provider) ==
    IF provider = "openai" THEN OpenAIOutcomes ELSE OllamaOutcomes

\* the backend handle: a new OpenAI object for each client (id is the number
\* of the client), or the ollama module, of which the process has one
OpenAIHandle(id) == [kind |-> "OpenAI", id |-> id]
OllamaModule == [kind |-> "ollama", id |-> 0]
NoHandle == [kind |-> "unset", id |-> 0]

Constructed(self) == [made |-> TRUE, self |-> self, raised |-> None]
Raised(config, e) ==
    [made |-> FALSE, self |-> [config |-> config, client |-> NoHandle],
     raised |-> Some(e)]

\* __init__ without its final  else: raise ValueError
LLMClient_init_no_else(config, id, libOk) ==
    IF config.provider = "openai"
    THEN IF libOk
         THEN Constructed([config |-> config, client |-> OpenAIHandle(id)])
         ELSE Raised(config, Exception("OpenAIError", None))
    ELSE IF config.provider = "ollama"
    THEN IF libOk
         THEN Constructed([config |-> config, client |-> OllamaModule])
         ELSE Raised(config, Exception("ImportError", None))
    ELSE Constructed([config |-> config, client |-> NoHandle])

\* LLMClient.__init__; libOk: OpenAI(api_key=...) or  import ollama  succeeds
LLMClient_init(config, id, libOk) ==
    IF config.provider = "openai"
    THEN IF libOk
         THEN Constructed([config |-> config, client |-> OpenAIHandle(id)])
         ELSE Raised(config, Exception("OpenAIError", None))
    ELSE IF config.provider = "ollama"
    THEN IF libOk
         THEN Constructed([config |-> config, client |-> OllamaModule])
         ELSE Raised(config, Exception("ImportError", None))
    ELSE Raised(config, UnsupportedProvider)

\* a chat-completion call: the handle it goes through, the operation, and the
\* keyword arguments it carries
OpenAICall(self, messages) ==
    [client |-> self.client, api |-> "chat.completions.create",
     model |-> Present(self.config.model),
     messages |-> Present(messages),
     temperature |-> Present(self.config.temperature),
     max_tokens |-> Present(self.config.max_tokens)]

OllamaCall(self, messages) ==
    [client |-> self.client, api |-> "chat",
     model |-> Present(self.config.model),
     messages |-> Present(messages),
     temperature |-> Absent,
     max_tokens |-> Absent]

\* what the statements after the call do with its outcome: an exception of
\* the call propagates; choices[0] of an empty list raises IndexError
AfterCall(outcome) ==
    IF outcome.kind = "fault"
    THEN [raised |-> Some(Exception(outcome.error, None)), returned |-> None]
    ELSE IF outcome.choices = <<>>
    THEN [raised |-> Some(Exception("IndexError", None)), returned |-> None]
    ELSE [raised |-> None, returned |-> Some(outcome.choices[1])]

ProviderCall(self, messages) ==
    IF self.config.provider = "openai" THEN OpenAICall(self, messages)
    ELSE OllamaCall(self, messages)

\* generate that calls the backend a second time when the first call faults
\* and wraps the failure
generate_run_retry(self, messages, outcome) ==
    IF self.config.provider \in LLMProvider
    THEN IF outcome.kind = "fault"
         THEN [calls |-> <<ProviderCall(self, messages),
                          ProviderCall(self, messages)>>,
               raised |-> Some(Exception("GenerationError",
                                         Some(outcome.error))),
               returned |-> None]
         ELSE [calls |-> <<ProviderCall(self, messages)>>,
               raised |-> AfterCall(outcome).raised,
               returned |-> AfterCall(outcome).returned]
    ELSE [calls |-> <<>>, raised |-> None, returned |-> None]

\* LLMClient.generate (without extra keyword arguments): the backend calls it
\* makes, and what it raises or returns, given what the backend does
generate_run(self, messages, outcome) ==
    IF self.config.provider = "openai"
    THEN [calls |-> <<OpenAICall(self, messages)>>,
          raised |-> AfterCall(outcome).raised,
          returned |-> AfterCall(outcome).returned]
    ELSE IF self.config.provider = "ollama"
    THEN [calls |-> <<OllamaCall(self, messages)>>,
          raised |-> AfterCall(outcome).raised,
          returned |-> AfterCall(outcome).returned]
    ELSE [calls |-> <<>>, raised |-> None, returned |-> None]

\* n counts the generate invocations so far
NoOp ==
    [op |-> "none", n |-> 0, config |-> None, self |-> 0, messages |-> <<>>,
     outcome |-> Response(<<>>), raised |-> None, returned |-> None]

LLM_initial ==
    /\ clients = <<>>
    /\ calls = <<>>
    /\ lastOp = NoOp

\* LLMClient(config)
NewClient(config, libOk) ==
    LET r == LLMClient_init(config, Len(clients) + 1, libOk)
    IN  /\ Len(clients) < MaxClients
        /\ clients' = IF r.made THEN Append(clients, r.self) ELSE clients
        /\ lastOp' = [NoOp EXCEPT !.op = "LLMClient", !.n = lastOp.n,
                                  !.config = Some(config),
                                  !.raised = r.raised]
        /\ UNCHANGED calls

\* clients[i].generate(messages), the backend answering with  outcome
generate(i, messages, outcome) ==
    LET r == generate_run(clients[i], messages, outcome)
    IN  /\ lastOp.n < MaxCalls
        /\ calls' = calls \o r.calls
        /\ lastOp' = [NoOp EXCEPT !.op = "generate", !.n = lastOp.n + 1,
                                  !.self = i, !.messages = messages,
                                  !.outcome = outcome,
                                  !.raised = r.raised,
                                  !.returned = r.returned]
        /\ UNCHANGED clients

ConstructClient ==
    /\ \E c \in Configs, libOk \in BOOLEAN : NewClient(c, libOk)
    /\ UNCHANGED exceptLLM

\* the provider whose call shape the handle offers
HandleProvider(handle) == IF handle.kind = "OpenAI" THEN "openai" ELSE "ollama"

\* what a call through the client's handle can do: the backend answers or
\* faults when the call has the handle's shape; a call of the other
\* provider's shape fails on the handle itself (the OpenAI object's chat is
\* not callable, the ollama module's chat has no completions)
CallOutcomes(self) ==
    IF self.config.provider = HandleProvider(self.client)
    THEN Outcomes(self.config.provider)
    ELSE IF self.config.provider = "ollama" THEN {Fault("TypeError")}
    ELSE {Fault("AttributeError")}

Generate ==
    /\ \E i \in 1..Len(clients), m \in MessageLists :
          \E o \in CallOutcomes(clients[i]) : generate(i, m, o)
    /\ UNCHANGED exceptLLM

\* the caller assigns to the provider field of the LLMConfig that client i
\* holds (LLMConfig is a dataclass that is not frozen, and the client keeps
\* the caller's object)
set_provider(i, provider) ==
    /\ clients[i].config.provider # provider
    /\ clients' = [clients EXCEPT ![i].config.provider = provider]
    /\ lastOp' = [NoOp EXCEPT !.op = "set_provider", !.n = lastOp.n,
                              !.self = i]
    /\ UNCHANGED calls

Threads_initial == inflight = {}

\* a thread enters clients[i].generate(messages) and issues the backend call
\* through self.client; at most one thread is inside a given client
begin_generate(i, messages) ==
    LET r == generate_run(clients[i], messages, Response(<<>>))
    IN  /\ lastOp.n < MaxCalls
        /\ \A f \in inflight : f.self # i
        /\ r.calls # <<>>
        /\ calls' = calls \o r.calls
        /\ inflight' = inflight \cup
              {[self |-> i, messages |-> messages, call |-> r.calls[1]]}
        /\ lastOp' = [NoOp EXCEPT !.op = "generate_begin",
                                  !.n = lastOp.n + 1,
                                  !.self = i, !.messages = messages]
        /\ UNCHANGED clients

\* the backend answers the call in flight on clients[i] with  outcome  and
\* generate raises or returns
end_generate(f, outcome) ==
    LET r == generate_run(clients[f.self], f.messages, outcome)
    IN  /\ inflight' = inflight \ {f}
        /\ lastOp' = [NoOp EXCEPT !.op = "generate", !.n = lastOp.n,
                                  !.self = f.self, !.messages = f.messages,
                                  !.outcome = outcome,
                                  !.raised = r.raised,
                                  !.returned = r.returned]
        /\ UNCHANGED <<clients, calls>>

BeginGenerate ==
    /\ \E i \in 1..Len(clients), m \in MessageLists : begin_generate(i, m)
    /\ UNCHANGED exceptLLMThreads

EndGenerate ==
    /\ \E f \in inflight :
          \E o \in CallOutcomes(clients[f.self]) : end_generate(f, o)
    /\ UNCHANGED exceptLLMThreads

SetProvider ==
    /\ \E i \in 1..Len(clients), p \in LLMProvider \cup {"other"} :
          set_provider(i, p)
    /\ UNCHANGED exceptLLM

----------------------------------------------------------------------------
(* llm.py: generate_schema *)

MaxResponseLen == 5

\* A response text is a sequence of tokens: FENCE is three backquotes, "json"
\* and "python" are those words, JSONTEXT is the text of a JSON object,
\* "Here:" is text that is no JSON, and " " is white space.
FENCE == "<fence>"
JSONTEXT == "{}"
Tokens == {FENCE, "json", "python", JSONTEXT, "Here:", " "}
ResponseTexts == SeqsUpTo(Tokens, MaxResponseLen)

\* the first index from  i  on at which  pat  occurs in  s,  or 0
RECURSIVE Find(_, _, _)
Find(s, pat, i) ==
    IF i + Len(pat) - 1 > Len(s) THEN 0
    ELSE IF SubSeq(s, i, i + Len(pat) - 1) = pat THEN i
    ELSE Find(s, pat, i + 1)

\* pat in s
Contains(s, pat) == Find(s, pat, 1) # 0

\* s.split(sep): the list of the pieces between the occurrences of sep
RECURSIVE Split(_, _)
Split(s, sep) ==
    LET i == Find(s, sep, 1)
    IN  IF i = 0 THEN <<s>>
        ELSE <<SubSeq(s, 1, i - 1)>>
                \o Split(SubSeq(s, i + Len(sep), Len(s)), sep)

\* s.strip()
RECURSIVE Strip(_)
Strip(s) ==
    IF s = <<>> THEN s
    ELSE IF s[1] = " " THEN Strip(Tail(s))
    ELSE IF s[Len(s)] = " " THEN Strip(SubSeq(s, 1, Len(s) - 1))
    ELSE s

\* json.loads(s): the parsed value, or a JSONDecodeError; white space around
\* the one JSON text is allowed
json_loads(s) ==
    IF Strip(s) = <<JSONTEXT>>
    THEN [ok |-> TRUE, value |-> "dict {}", error |-> ""]
    ELSE [ok |-> FALSE, value |-> "", error |-> "JSONDecodeError"]

\* the if / elif of generate_schema
extract(schema_str) ==
    IF Contains(schema_str, <<FENCE, "json">>)
    THEN Strip(Split(Split(schema_str, <<FENCE, "json">>)[2], <<FENCE>>)[1])
    ELSE IF Contains(schema_str, <<FENCE>>)
    THEN Strip(Split(Split(schema_str, <<FENCE>>)[2], <<FENCE>>)[1])
    ELSE schema_str

\* what the backend call of generate_schema does: it raises, or it answers
\* with one completion
GenSchemaOutcomes ==
    {Fault("AttributeError")} \cup {Response(<<t>>) : t \in ResponseTexts}

NoGen ==
    [op |-> "none", outcome |-> Response(<<>>), extracted |-> None,
     raised |-> None, returned |-> None]

\* generate_schema, the backend answering with  outcome: a fault of the call
\* propagates; only the JSONDecodeError is caught and raised as a ValueError
\* that carries its detail
generate_schema_run(outcome) ==
    IF outcome.kind = "fault"
    THEN [NoGen EXCEPT !.op = "generate_schema", !.outcome = outcome,
                       !.raised = Some(Exception(outcome.error, None))]
    ELSE LET schema_str == extract(outcome.choices[1])
             loaded == json_loads(schema_str)
         IN  [op |-> "generate_schema", outcome |-> outcome,
              extracted |-> Some(schema_str),
              raised |-> IF loaded.ok THEN None
                         ELSE Some(Exception(
                            "ValueError: Failed to parse generated schema",
                            Some(loaded.error))),
              returned |-> IF loaded.ok THEN Some(loaded.value) ELSE None]

Gen_initial == gen = NoGen

generate_schema(outcome) == gen' = generate_schema_run(outcome)

\* generate_schema keeps no state between calls: a behaviour makes one call
GenerateSchema ==
    /\ gen = NoGen
    /\ \E o \in GenSchemaOutcomes : generate_schema(o)
    /\ UNCHANGED exceptGen

----------------------------------------------------------------------------
(* models.py: Prompt.format, which is str.format on the template *)

MaxTemplateLen == 5

\* the characters of a template: the two braces and two letters
TemplateChars == {"{", "}", "a", "b"}
Templates == SeqsUpTo(TemplateChars, MaxTemplateLen)

\* the names of keyword arguments, and their values (strings; one of them
\* has the text of a placeholder)
ArgNames == {<<"a">>, <<"b">>}
ArgValues == {<<"b">>, <<"{", "a", "}">>}
Kwargs == UNION {[names -> ArgValues] : names \in SUBSET ArgNames}

\* Prompt.parameters: the placeholder names the prompt documents
ParameterDocs == {{}, {<<"a">>}}

FormatRaised(type, detail) ==
    [raised |-> Some(Exception(type, Some(detail))), returned |-> None]
FormatReturned(text) == [raised |-> None, returned |-> Some(text)]

\* a lookup that leaves the placeholder of a missing name in the text
get_field_or_keep(name, kwargs) ==
    IF name = <<>>
    THEN [found |-> FALSE, error |-> "IndexError", value |-> <<>>]
    ELSE IF name \in DOMAIN kwargs
    THEN [found |-> TRUE, error |-> "", value |-> kwargs[name]]
    ELSE [found |-> TRUE, error |-> "", value |-> <<"{">> \o name \o <<"}">>]

\* the object a replacement field names: an empty name is the next positional
\* argument, of which format(**kwargs) has none; any other name (the model
\* has no digits) is a key of kwargs
get_field(name, kwargs) ==
    IF name = <<>>
    THEN [found |-> FALSE, error |-> "IndexError", value |-> <<>>]
    ELSE IF name \in DOMAIN kwargs
    THEN [found |-> TRUE, error |-> "", value |-> kwargs[name]]
    ELSE [found |-> FALSE, error |-> "KeyError", value |-> <<>>]

\* the first index from  i  on of a brace in  t,  or 0
RECURSIVE NextBrace(_, _)
NextBrace(t, i) ==
    IF i > Len(t) THEN 0
    ELSE IF t[i] \in {"{", "}"} THEN i
    ELSE NextBrace(t, i + 1)

\* str.format from index i of the template on, out being the text written so
\* far: literal text is copied, a doubled brace writes one brace, a single
\* brace that opens no field is a ValueError, and a field is replaced by the
\* string of its argument, which is not scanned again
RECURSIVE format_from(_, _, _, _)
format_from(t, i, out, kwargs) ==
    IF i > Len(t) THEN FormatReturned(out)
    ELSE IF t[i] \notin {"{", "}"}
    THEN format_from(t, i + 1, Append(out, t[i]), kwargs)
    ELSE IF t[i] = "}" /\ (i = Len(t) \/ t[i + 1] # "}")
    THEN FormatRaised("ValueError", "Single '}' encountered in format string")
    ELSE IF t[i] = "{" /\ i = Len(t)
    THEN FormatRaised("ValueError", "Single '{' encountered in format string")
    ELSE IF t[i + 1] = t[i]
    THEN format_from(t, i + 2, Append(out, t[i]), kwargs)
    ELSE LET j == NextBrace(t, i + 1)
         IN  IF j = 0
             THEN FormatRaised("ValueError",
                               "expected '}' before end of string")
             ELSE IF t[j] = "{"
             THEN FormatRaised("ValueError", "unexpected '{' in field name")
             ELSE LET name == SubSeq(t, i + 1, j - 1)
                      field == get_field(name, kwargs)
                  IN  IF field.found
                      THEN format_from(t, j + 1, out \o field.value, kwargs)
                      ELSE FormatRaised(field.error, "the field's name")

\* format that returns the template as it is
Prompt_format_unformatted(self, kwargs) == FormatReturned(self.template)

\* Prompt.format(**kwargs)
Prompt_format(self, kwargs) == format_from(self.template, 1, <<>>, kwargs)

NoFormat ==
    [op |-> "none", prompt |-> [template |-> <<>>, parameters |-> {}],
     kwargs |-> <<>>, raised |-> None, returned |-> None]

Format_initial == fmt = NoFormat

\* prompt.format(**kwargs)
format(prompt, kwargs) ==
    fmt' = [op |-> "format", prompt |-> prompt, kwargs |-> kwargs,
            raised |-> Prompt_format(prompt, kwargs).raised,
            returned |-> Prompt_format(prompt, kwargs).returned]

\* format keeps no state between calls: a behaviour makes one call
Format ==
    /\ fmt = NoFormat
    /\ \E t \in Templates, ps \in ParameterDocs, kw \in Kwargs :
          format([template |-> t, parameters |-> ps], kw)
    /\ UNCHANGED exceptFmt

----------------------------------------------------------------------------
(* The specifications *)

Init ==
    /\ PromptManager_init
    /\ Schema_initial
    /\ LLM_initial
    /\ Gen_initial
    /\ Format_initial
    /\ Threads_initial

\* the PromptManager registry
Next ==
    \/ AddPrompt
    \/ GetPrompt
    \/ GetPromptsByCategory
    \/ GetPromptsByTag

Spec == Init /\ [][Next]_vars

\* Schema and SchemaProperty
NextSchema ==
    \/ ConstructProperty
    \/ PropertyToDict
    \/ ConstructSchema
    \/ ToDict
    \/ SupplyDict
    \/ FromDict

SpecSchema == Init /\ [][NextSchema]_vars

\* LLMClient
NextLLM ==
    \/ ConstructClient
    \/ Generate

SpecLLM == Init /\ [][NextLLM]_vars

\* LLMClient, with callers that change a config after constructing the client
NextLLMMutable ==
    \/ ConstructClient
    \/ Generate
    \/ SetProvider

SpecLLMMutable == Init /\ [][NextLLMMutable]_vars

\* LLMClient objects used from several threads, one thread per client
NextLLMThreads ==
    \/ ConstructClient
    \/ BeginGenerate
    \/ EndGenerate

SpecLLMThreads == Init /\ [][NextLLMThreads]_vars

\* generate_schema
NextGen ==
    \/ GenerateSchema

SpecGen == Init /\ [][NextGen]_vars

\* Prompt.format
NextFormat ==
    \/ Format

SpecFormat == Init /\ [][NextFormat]_vars

----------------------------------------------------------------------------
(* Claims about the PromptManager registry (checked under Spec) *)

\* the prompt most recently passed to add_prompt under name n, if any
LastAdded(n) ==
    LET idx == {i \in 1..Len(added) : added[i].name = n}
    IN  IF idx = {} THEN None
        ELSE Some(added[CHOOSE i \in idx : \A j \in idx : j <= i])

\* the prompts currently registered, as a set
Registered == {LastAdded(n)[1] : n \in {m \in Names : LastAdded(m) # None}}

\* the list holds exactly the prompts of the set, each once
ExactlyOnce(list, set) ==
    /\ Range(list) = set
    /\ \A i, j \in 1..Len(list) : list[i] = list[j] => i = j

\* C1: get_prompt(n) returns the prompt most recently added under the name n,
\* whatever was added under other names, and returns None (without raising)
\* when no prompt named n was ever added.
C1_GetPromptLastAdded ==
    /\ \A n \in Names : DictGet(prompts, n) = LastAdded(n)
    /\ call.op = "get_prompt" =>
          IF LastAdded(call.name) = None
          THEN ret = PyNone
          ELSE ret = PyPrompt(LastAdded(call.name)[1])

\* a get_prompt after a prompt was replaced under its name, with an add under
\* another name in between
C1_Witness ==
    /\ call.op = "get_prompt"
    /\ Len(added) = 3
    /\ added[1].name = call.name /\ added[3].name = call.name
    /\ added[2].name # call.name
    /\ added[1] # added[3]
    /\ ret = PyPrompt(added[3])

C2_ResultIsExact ==
    call.op = "get_prompts_by_category" =>
        /\ ret.type = "list"
        /\ ExactlyOnce(ret.value,
                       {p \in Registered : p.category = call.category})

C2_RepeatedCallSameOrder ==
    (/\ call.op = "get_prompts_by_category"
     /\ call'.op = "get_prompts_by_category"
     /\ call'.category = call.category) => ret' = ret

\* C2: get_prompts_by_category(c) returns a list holding exactly the currently
\* registered prompts of category c, each once and no replaced prompt (the
\* empty list when there is none), and a repeated call against the unmodified
\* registry returns the same list in the same order.
C2_ByCategoryExact == []C2_ResultIsExact /\ [][C2_RepeatedCallSameOrder]_vars

\* a query that returns one of two registered prompts, after a prompt of the
\* queried category was replaced by one of another category
C2_Witness ==
    /\ call.op = "get_prompts_by_category"
    /\ Len(added) = 3
    /\ added[1].name = added[3].name
    /\ added[1].category = call.category
    /\ added[3].category # call.category
    /\ added[2].category = call.category
    /\ ret = PyList(<<added[2]>>)

\* C3: get_prompts_by_tag(t) returns a list holding exactly the currently
\* registered prompts one of whose tags equals t; a prompt that only has a
\* longer tag containing t is not returned, and the list is empty when no
\* registered prompt carries t.
C3_ByTagExact ==
    call.op = "get_prompts_by_tag" =>
        /\ ret.type = "list"
        /\ ExactlyOnce(ret.value,
                       {p \in Registered : call.tag \in Range(p.tags)})

\* a query for a tag that one registered prompt carries and that another
\* registered prompt only has inside a longer tag
C3_Witness ==
    /\ call.op = "get_prompts_by_tag"
    /\ call.tag = TagA
    /\ \E p \in Registered : p.tags = <<TagAB>>
    /\ \E p \in Registered : p.tags = <<TagA>> /\ ret = PyList(<<p>>)

----------------------------------------------------------------------------
(* Claims about Schema and SchemaProperty (checked under SpecSchema) *)

\* C4: Schema.from_dict(s.to_dict()).to_dict() equals s.to_dict(), for every
\* Schema s, also one built with required omitted, with required given as the
\* empty list, or with no properties.
C4_RoundTrip ==
    strace.roundTripOf # None =>
        /\ strace.sdictBy = "to_dict"
        /\ SchemaDictEq(sdict[1], strace.roundTripOf[1])

\* the round trip of a Schema of two properties, one with an empty enum, that
\* was built with required given as the empty list
C4_Witness ==
    /\ strace.roundTripOf # None
    /\ strace.requiredArg = Some(<<>>)
    /\ Len(sdict[1].parameters.properties) = 2
    /\ Len(sdict[1].parameters.required[1]) = 2
    /\ \E i \in 1..2 :
          sdict[1].parameters.properties[i].value.enum = Present(<<>>)

\* the dict d was written for the property sp: type and description are
\* there, and each optional key is there exactly when its field is set
KeysAsSet(sp, d) ==
    /\ d.type = Present(sp.type)
    /\ d.description = Present(sp.description)
    /\ (d.enum # Absent) <=> (sp.enum # None)
    /\ (d.items # Absent) <=> (sp.items # None)
    /\ (d.properties # Absent) <=> (sp.properties # None)
    /\ sp.enum # None => d.enum = Present(sp.enum[1])
    /\ sp.items # None => d.items = Present(sp.items[1])
    /\ sp.properties # None => d.properties = Present(sp.properties[1])

\* C5: SchemaProperty.to_dict always has the keys type and description, and
\* has each of enum, items, properties if and only if that field was set on
\* the property, also for the properties serialised through Schema.to_dict.
C5_OptionalKeysIffSet ==
    /\ pdict # None => KeysAsSet(prop[1], pdict[1])
    /\ strace.dumped # None /\ strace.sdictBy = "to_dict" =>
          LET written == sdict[1].parameters.properties
              props == strace.dumped[1].properties
          IN  /\ Len(written) = Len(props)
              /\ \A i \in 1..Len(props) :
                    /\ written[i].key = props[i].key
                    /\ KeysAsSet(props[i].value, written[i].value)

\* to_dict of a Schema with a property whose enum is the empty list and whose
\* items and properties are unset, next to one with items and properties set
C5_Witness ==
    /\ strace.dumped # None /\ strace.sdictBy = "to_dict"
    /\ Len(sdict[1].parameters.properties) = 2
    /\ strace.dumped[1].properties[1].value.enum = Some(<<>>)
    /\ sdict[1].parameters.properties[1].value.enum = Present(<<>>)
    /\ sdict[1].parameters.properties[1].value.items = Absent
    /\ sdict[1].parameters.properties[2].value.items = Present("{}")
    /\ sdict[1].parameters.properties[2].value.enum = Absent

\* C12: from_dict yields a Schema whose required list is the list under the
\* key required of the input's parameters whenever that key is present, the
\* empty list included, and the list of all property names when the key is
\* absent.
C12_RequiredAsGiven ==
    strace.schemaBy = "from_dict" =>
        LET params == strace.parsedFrom[1].parameters
        IN  IF params.required # Absent
            THEN schema[1].required = params.required[1]
            ELSE schema[1].required = DictKeys(params.properties)

----------------------------------------------------------------------------
(* Claims about LLMClient (checked under SpecLLM) *)

\* C6: constructing an LLMClient with a provider that is neither OPENAI nor
\* OLLAMA raises the unsupported-provider error, so no client with an unknown
\* provider exists to call generate on; construction with OPENAI or OLLAMA
\* does not raise that error.
C6_UnknownProviderRejected ==
    /\ \A i \in 1..Len(clients) :
          /\ clients[i].config.provider \in LLMProvider
          /\ clients[i].client # NoHandle
    /\ lastOp.op = "LLMClient" =>
          (lastOp.raised = Some(UnsupportedProvider)
              <=> lastOp.config[1].provider \notin LLMProvider)

\* a construction with an unknown provider, after one that made a client
C6_Witness ==
    /\ lastOp.op = "LLMClient"
    /\ lastOp.config[1].provider = "other"
    /\ lastOp.raised = Some(UnsupportedProvider)
    /\ Len(clients) = 1

\* C7: for a client of either provider, generate(messages) passes to the
\* chat-completion call the messages unchanged and in order, with the model,
\* the temperature and the max_tokens of the client's configuration.
C7_CallCarriesConfig ==
    lastOp.op = "generate" =>
        LET c == calls[Len(calls)]
            config == clients[lastOp.self].config
        IN  /\ c.messages = Present(lastOp.messages)
            /\ c.model = Present(config.model)
            /\ c.temperature = Present(config.temperature)
            /\ c.max_tokens = Present(config.max_tokens)

\* C8 as stated: one backend call for each generate; the first completion's
\* text is returned when the call succeeds, and a fault is raised as a
\* GenerationError whose cause is the backend's failure.
C8_FaultWrapped ==
    /\ Len(calls) = lastOp.n
    /\ lastOp.op = "generate" =>
          IF lastOp.outcome.kind = "response" /\ lastOp.outcome.choices # <<>>
          THEN /\ lastOp.returned = Some(lastOp.outcome.choices[1])
               /\ lastOp.raised = None
          ELSE /\ lastOp.returned = None
               /\ lastOp.raised # None
               /\ lastOp.raised[1].type = "GenerationError"
               /\ lastOp.outcome.kind = "fault" =>
                      lastOp.raised[1].cause = Some(lastOp.outcome.error)

\* C8 as amended: each generate invocation makes exactly one backend call;
\* when the call succeeds generate returns the text of the first completion;
\* when it faults there is no second attempt and the backend's own exception
\* reaches the caller as it is, not wrapped in another error (a response
\* without a completion raises the IndexError of choices[0], not wrapped
\* either).
C8_SingleAttemptFaultPropagates ==
    /\ Len(calls) = lastOp.n
    /\ lastOp.op = "generate" =>
          IF lastOp.outcome.kind = "response" /\ lastOp.outcome.choices # <<>>
          THEN /\ lastOp.returned = Some(lastOp.outcome.choices[1])
               /\ lastOp.raised = None
          ELSE /\ lastOp.returned = None
               /\ lastOp.raised =
                      Some(Exception(IF lastOp.outcome.kind = "fault"
                                     THEN lastOp.outcome.error
                                     ELSE "IndexError", None))

\* a second generate whose backend call faults
C8_Witness ==
    /\ lastOp.op = "generate"
    /\ lastOp.n = 2
    /\ Len(calls) = 2
    /\ lastOp.outcome = Fault("RateLimitError")
    /\ lastOp.raised = Some(Exception("RateLimitError", None))

\* the operation of the backend that a handle offers
HandleApi(handle) ==
    IF handle.kind = "OpenAI" THEN "chat.completions.create" ELSE "chat"

\* C13 (checked under SpecLLMMutable): the handle is chosen at construction
\* from config.provider, and every generate call dispatches through it with
\* the call shape of that handle's provider, also after the provider field
\* of the config the client holds was changed.
C13_DispatchMatchesHandle ==
    /\ Len(calls) = lastOp.n
    /\ \A k \in 1..Len(calls) : calls[k].api = HandleApi(calls[k].client)
    /\ lastOp.op = "generate" =>
          calls[Len(calls)].client = clients[lastOp.self].client

\* C14 (checked under SpecLLMThreads): any two distinct LLMClient objects,
\* of either provider, hold different backend handles, so calls in flight on
\* different clients at the same time never go through one common handle.
C14_NoSharedHandle ==
    /\ \A i, j \in 1..Len(clients) :
          i # j => clients[i].client # clients[j].client
    /\ \A f, g \in inflight :
          f.self # g.self => f.call.client # g.call.client

----------------------------------------------------------------------------
(* Claims about generate_schema (checked under SpecGen) *)

\* The fenced code blocks of a text from index i on, as Markdown reads them:
\* a fence opens a block, a word right after the opening fence is the
\* block's tag and not part of its contents, and the next fence (or the end
\* of the text) closes the block.
RECURSIVE FencedBlocks(_, _)
FencedBlocks(s, i) ==
    LET open == Find(s, <<FENCE>>, i)
        tagged == open # 0 /\ open < Len(s) /\ s[open + 1] \in {"json", "python"}
        first == IF tagged THEN open + 2 ELSE open + 1
        close == Find(s, <<FENCE>>, first)
    IN  IF open = 0 THEN <<>>
        ELSE IF close = 0
        THEN <<[tag |-> IF tagged THEN s[open + 1] ELSE "",
                contents |-> SubSeq(s, first, Len(s))]>>
        ELSE <<[tag |-> IF tagged THEN s[open + 1] ELSE "",
                contents |-> SubSeq(s, first, close - 1)]>>
                \o FencedBlocks(s, close + 1)

\* the text the stated policy selects from a response
PolicyText(response) ==
    LET blocks == FencedBlocks(response, 1)
        jsonBlocks == SelectSeq(blocks, LAMBDA b : b.tag = "json")
    IN  IF jsonBlocks # <<>> THEN jsonBlocks[1].contents
        ELSE IF blocks # <<>> THEN blocks[1].contents
        ELSE response

\* C9: generate_schema parses the contents of the response's json-tagged
\* fenced block if there is one, else the contents of its fenced block if
\* there is one, else the whole response; it returns the parsed JSON, and
\* raises the schema-parse error carrying the parse failure's detail when
\* that text is not valid JSON.
C9_ExtractionPolicy ==
    gen.op = "generate_schema" /\ gen.outcome.kind = "response" =>
        LET parsed == json_loads(PolicyText(gen.outcome.choices[1]))
        IN  IF parsed.ok
            THEN gen.returned = Some(parsed.value) /\ gen.raised = None
            ELSE /\ gen.returned = None
                 /\ gen.raised = Some(Exception(
                        "ValueError: Failed to parse generated schema",
                        Some(parsed.error)))

----------------------------------------------------------------------------
(* Claims about Prompt.format (checked under SpecFormat) *)

\* The placeholders of a template from index i on, read off its text: a
\* doubled brace is an escaped brace, {name} is a placeholder, and any other
\* brace makes the text no format string at all (wellFormed is FALSE).
RECURSIVE Scan(_, _, _)
Scan(t, i, names) ==
    IF i > Len(t) THEN [wellFormed |-> TRUE, names |-> names]
    ELSE IF t[i] \notin {"{", "}"} THEN Scan(t, i + 1, names)
    ELSE IF i < Len(t) /\ t[i + 1] = t[i] THEN Scan(t, i + 2, names)
    ELSE IF t[i] = "}" THEN [wellFormed |-> FALSE, names |-> names]
    ELSE LET j == NextBrace(t, i + 1)
         IN  IF j = 0 \/ t[j] = "{"
             THEN [wellFormed |-> FALSE, names |-> names]
             ELSE Scan(t, j + 1, names \cup {SubSeq(t, i + 1, j - 1)})

Placeholders(t) == Scan(t, 1, {}).names
WellFormed(t) == Scan(t, 1, {}).wellFormed

\* the errors that say a placeholder has no argument: both are LookupErrors
MissingParameter == {"KeyError", "IndexError"}

\* C10: Prompt.format(**kwargs) fails with a MissingParameter-kind error
\* whenever the template has a placeholder whose name is not among the
\* arguments, and succeeds when every placeholder has an argument, whatever
\* other arguments are supplied and whatever the prompt's parameters
\* metadata documents.
C10_MissingParameterOrSuccess ==
    fmt.op = "format" /\ WellFormed(fmt.prompt.template) =>
        IF Placeholders(fmt.prompt.template) \subseteq DOMAIN fmt.kwargs
        THEN fmt.raised = None /\ fmt.returned # None
        ELSE /\ fmt.returned = None
             /\ fmt.raised # None
             /\ fmt.raised[1].type \in MissingParameter

\* a format whose template has the placeholder {a}, called with an argument
\* b the template does not use and no a, for a prompt that documents a
C10_Witness ==
    /\ fmt.op = "format"
    /\ fmt.prompt.template = <<"b", "{", "a", "}">>
    /\ fmt.prompt.parameters = {<<"a">>}
    /\ DOMAIN fmt.kwargs = {<<"b">>}
    /\ fmt.raised # None /\ fmt.raised[1].type = "KeyError"

\* the literal token {name}
Token(name) == <<"{">> \o name \o <<"}">>

HasBrace(text) == \E i \in 1..Len(text) : text[i] \in {"{", "}"}

\* the template has a doubled brace, which format writes as one brace
HasEscape(t) ==
    \E i \in 1..(Len(t) - 1) : t[i] \in {"{", "}"} /\ t[i + 1] = t[i]

\* C11 as stated: when the arguments supply every placeholder of the
\* template, format returns a string that holds no literal {name} token for
\* any name among the arguments.
C11_NoTokenLeft ==
    (/\ fmt.op = "format"
     /\ WellFormed(fmt.prompt.template)
     /\ Placeholders(fmt.prompt.template) \subseteq DOMAIN fmt.kwargs) =>
        /\ fmt.returned # None
        /\ \A n \in DOMAIN fmt.kwargs :
              ~IsSubstring(Token(n), fmt.returned[1])

\* C11 as amended: when the arguments supply every placeholder of the
\* template, the template has no doubled brace, and no value substituted
\* for a placeholder holds a brace, format returns a string that holds no
\* literal {name} token for any name among the arguments.
C11_NoTokenLeftWithoutBraces ==
    (/\ fmt.op = "format"
     /\ WellFormed(fmt.prompt.template)
     /\ Placeholders(fmt.prompt.template) \subseteq DOMAIN fmt.kwargs
     /\ ~HasEscape(fmt.prompt.template)
     /\ \A n \in Placeholders(fmt.prompt.template) :
           ~HasBrace(fmt.kwargs[n])) =>
        /\ fmt.returned # None
        /\ \A n \in DOMAIN fmt.kwargs :
              ~IsSubstring(Token(n), fmt.returned[1])

\* a format that replaces the placeholder {a} by a value without braces,
\* called with a second argument whose value the template does not use
C11_Witness ==
    /\ fmt.op = "format"
    /\ fmt.prompt.template = <<"{", "a", "}", "b">>
    /\ DOMAIN fmt.kwargs = {<<"a">>, <<"b">>}
    /\ fmt.kwargs[<<"a">>] = <<"b">>
    /\ fmt.kwargs[<<"b">>] = <<"{", "a", "}">>
    /\ fmt.returned = Some(<<"b", "b">>)

====
